---- MODULE Spec2Model ----
(***************************************************************************)
(* Model of the crawler of assistant-recherche-web:                        *)
(*   src/modules/scraper - chunk normal.py                                 *)
(*     SiteContentScraper.chunk_text          (pure function, ChunkSpec)   *)
(*     SiteContentScraper.scrape_all_pages, fetch_sitemap,                 *)
(*     discover_pages_via_crawling, scrape_page            (Spec)          *)
(*                                                                         *)
(* Texts and URLs are sequences of one-character strings, so that          *)
(* whitespace collapsing, splitting, stripping and prefix tests are        *)
(* computed the way the Python code computes them.                         *)
(***************************************************************************)
EXTENDS Integers, Sequences, FiniteSets, TLC

(***************************************************************************)
(* Bounds of the model.                                                    *)
(***************************************************************************)
MaxTextLen == 6
MaxChunkSize == 2
MaxPagesBound == 2        \* max_pages ranges over MinPages..MaxPagesBound
MaxConcurrentBound == 2   \* max_concurrent ranges over 1..MaxConcurrentBound
MaxChildren == 2          \* child sitemaps of a sitemap index
MaxLocs == 3              \* <url> entries of one sitemap document
NumPaths == 3             \* pages of the site besides its root

MaxIngestPages == 2       \* pages of the crawl result given to load_from_dict
MaxResults == 4           \* n_results ranges over 1..MaxResults
MaxScore == 2             \* similarity scores and thresholds are levels 0..MaxScore
MaxTime == 1              \* the wall clock reads the seconds 0..MaxTime
MaxRuns == 2              \* runs of scrape_and_load
MaxDocs == 2              \* documents of one crawl result
MaxHangPages == 3         \* HangSpec: max_pages, and the tasks that may hang
MaxCrawlPages == 4        \* CrawlSpec: max_pages ranges over 0..MaxCrawlPages

\* app.py: st.number_input("Nombre maximum de pages", min_value=1, ...)
MinPages == 1

\* vector_store.py: if len(content) > 5000
ContentThreshold == 5000

\* vector_store.py: batch_size = 20
batch_size == 20

(***************************************************************************)
(* Characters.  "\n" stands for every non-space whitespace character.      *)
(***************************************************************************)
Whitespace == {" ", "\n"}
EndPunct == {".", "!", "?"}
Alphabet == {"a", ".", " ", "\n"}

RECURSIVE SeqsUpTo(_, _)
SeqsUpTo(S, n) ==
  IF n = 0 THEN {<<>>}
  ELSE LET shorter == SeqsUpTo(S, n - 1)
       IN shorter \cup {Append(s, c) : s \in {t \in shorter : Len(t) = n - 1}, c \in S}

Last(s) == s[Len(s)]

DropFirst(s, n) == SubSeq(s, n + 1, Len(s))

StartsWith(s, p) == Len(p) <= Len(s) /\ SubSeq(s, 1, Len(p)) = p

(***************************************************************************)
(* String primitives of chunk_text.                                        *)
(***************************************************************************)
RECURSIVE LStrip(_)
LStrip(s) ==
  IF s # <<>> /\ Head(s) \in Whitespace THEN LStrip(Tail(s)) ELSE s

RECURSIVE RStrip(_)
RStrip(s) ==
  IF s # <<>> /\ Last(s) \in Whitespace THEN RStrip(SubSeq(s, 1, Len(s) - 1)) ELSE s

\* str.strip()
Strip(s) == RStrip(LStrip(s))

\* re.sub(r'\s+', ' ', text): every maximal run of whitespace becomes one space
RECURSIVE CollapseWs(_)
CollapseWs(s) ==
  IF s = <<>> THEN <<>>
  ELSE IF Head(s) \in Whitespace THEN <<" ">> \o CollapseWs(LStrip(s))
  ELSE <<Head(s)>> \o CollapseWs(Tail(s))

\* re.sub(r'\s+', ' ', text).strip()
Normalize(text) == Strip(CollapseWs(text))

\* str.split(sep): cur is the piece being read
RECURSIVE SplitAt(_, _, _)
SplitAt(s, sep, cur) ==
  IF s = <<>> THEN <<cur>>
  ELSE IF StartsWith(s, sep) THEN <<cur>> \o SplitAt(DropFirst(s, Len(sep)), sep, <<>>)
  ELSE SplitAt(Tail(s), sep, Append(cur, Head(s)))

ParagraphSep == <<"\n", "\n">>

\* text.split('\n\n')
SplitParagraphs(text) == SplitAt(text, ParagraphSep, <<>>)

\* re.split(r'(?<=[.!?])\s+', paragraph): a whitespace run is a separator
\* only when the character before it ends a sentence
RECURSIVE SentSplit(_, _)
SentSplit(s, cur) ==
  IF s = <<>> THEN <<cur>>
  ELSE IF Head(s) \in Whitespace /\ cur # <<>> /\ Last(cur) \in EndPunct
       THEN <<cur>> \o SentSplit(LStrip(s), <<>>)
  ELSE SentSplit(Tail(s), Append(cur, Head(s)))

SplitSentences(paragraph) == SentSplit(paragraph, <<>>)

\* A plausible slip: the separating space is forgotten when a piece is appended.
AddPieceNoSpace(st, piece, size) ==
  IF Len(st.current) + Len(piece) <= size
  THEN [st EXCEPT !.current = @ \o piece]
  ELSE [chunks |-> IF st.current # <<>> THEN Append(st.chunks, Strip(st.current))
                   ELSE st.chunks,
        current |-> piece]

\* The accumulation rule, the same for a sentence and for a whole paragraph:
\* append to the running chunk while it fits, otherwise flush and restart.
AddPiece(st, piece, size) ==
  IF Len(st.current) + Len(piece) <= size
  THEN [st EXCEPT !.current = @ \o <<" ">> \o piece]
  ELSE [chunks |-> IF st.current # <<>> THEN Append(st.chunks, Strip(st.current))
                   ELSE st.chunks,
        current |-> piece]

RECURSIVE AddPieces(_, _, _)
AddPieces(st, pieces, size) ==
  IF pieces = <<>> THEN st
  ELSE AddPieces(AddPiece(st, Head(pieces), size), Tail(pieces), size)

\* One turn of the loop over the paragraphs.
AddParagraph(st, paragraph, size) ==
  IF Len(paragraph) > size * 2
  THEN AddPieces(st, SplitSentences(paragraph), size)
  ELSE AddPiece(st, paragraph, size)

RECURSIVE AddParagraphs(_, _, _)
AddParagraphs(st, paragraphs, size) ==
  IF paragraphs = <<>> THEN st
  ELSE AddParagraphs(AddParagraph(st, Head(paragraphs), size), Tail(paragraphs), size)

\* The last chunk is appended when the running chunk is a non-empty string.
FlushLast(st) ==
  IF st.current # <<>> THEN Append(st.chunks, Strip(st.current)) ELSE st.chunks

\* SiteContentScraper.chunk_text with self.chunk_size = size
chunk_text(text, size) ==
  IF text = <<>> THEN <<>>
  ELSE FlushLast(AddParagraphs([chunks |-> <<>>, current |-> <<>>],
                               SplitParagraphs(Normalize(text)), size))

\* " ".join(passages)
RECURSIVE JoinSpaces(_)
JoinSpaces(passages) ==
  IF passages = <<>> THEN <<>>
  ELSE IF Len(passages) = 1 THEN passages[1]
  ELSE passages[1] \o <<" ">> \o JoinSpaces(Tail(passages))

(***************************************************************************)
(* URLs.  A URL is the sequence of its parts: the origin, then the path.   *)
(* loc.startswith(self.base_url) is the prefix test on these sequences.    *)
(***************************************************************************)
BaseUrl == <<"site">>

SiteUrls == {<<"site", n>> : n \in 1..NumPaths}

ForeignUrl == <<"other", 1>>

\* a <url> element without a <loc> child: url['loc'] raises KeyError
NoLoc == <<>>

LocPool == SiteUrls \cup {ForeignUrl, NoLoc}

LocLists == SeqsUpTo(LocPool, MaxLocs)

\* what a GET of a child sitemap can answer
ChildResponses ==
  {[status |-> "ok", locs |-> l] : l \in LocLists}
    \cup {[status |-> "non200", locs |-> <<>>], [status |-> "error", locs |-> <<>>]}

(***************************************************************************)
(* The link structure of the site, for crawl-based discovery: Links(g, u)  *)
(* is what page.evaluate returns on page u (hrefs of the page's origin,    *)
(* in document order).  A page that redirects to another origin returns    *)
(* hrefs of that origin.                                                   *)
(***************************************************************************)
Graphs == {"star", "chain", "isolated", "redirect"}

RECURSIVE PathsFrom(_)
PathsFrom(n) == IF n > NumPaths THEN <<>> ELSE <<(<<"site", n>>)>> \o PathsFrom(n + 1)

Links(g, u) ==
  CASE g = "star" ->
         IF u = BaseUrl THEN <<BaseUrl>> \o PathsFrom(1) \o <<(<<"site", 1>>)>>
         ELSE <<BaseUrl>>
    [] g = "chain" ->
         IF u = BaseUrl THEN <<(<<"site", 1>>)>>
         ELSE IF u[2] < NumPaths THEN <<u, (<<"site", u[2] + 1>>)>>
         ELSE <<BaseUrl>>
    [] g = "isolated" -> <<>>
    [] g = "redirect" ->
         IF u = BaseUrl THEN <<(<<"site", 1>>), (<<"site", 2>>)>>
         ELSE IF u[2] = 1 THEN <<ForeignUrl>>
         ELSE <<>>

(***************************************************************************)
(* Progress values are exact fractions <<numerator, denominator>>.         *)
(***************************************************************************)
P(n) == <<n, 1>>

FracLeq(a, b) == a[1] * b[2] <= b[1] * a[2]

\* min(10 + (page_count / max_pages) * 30, 40)
CrawlProgress(count, maxp) ==
  IF 10 * maxp + 30 * count <= 40 * maxp THEN <<10 * maxp + 30 * count, maxp>> ELSE P(40)

\* 40 + (index / total) * 20, index counted from 0
PageProgress(index, total) == <<40 * total + 20 * index, total>>

(***************************************************************************)
(* Page contents a fetch can extract.                                      *)
(***************************************************************************)
PageTexts == {<<>>, <<" ">>, <<"a", ".", " ", "a", ".", " ", "a">>}

FetchOutcomes == {"ok", "fetch_error", "launch_error"}

NoResult == [ok |-> FALSE, url |-> <<>>, content |-> <<>>, chunks |-> <<>>, chunk_count |-> 0]

(***************************************************************************)
(* State.                                                                  *)
(***************************************************************************)
VARIABLES
  text,           \* chunk_text: the argument
  chunk_size,     \* self.chunk_size
  chunks,         \* chunk_text: the returned list
  cpc,            \* chunk_text: "call" before the call, "returned" after it
  max_pages,      \* the page cap given to scrape_all_pages
  max_concurrent, \* self.max_concurrent
  hung,           \* the task whose scrape_page never returns (none if no such task)
  graph,          \* the site's link structure, known once the crawl reads it
  pc,             \* scrape_all_pages: where the run is
  pages,          \* self.pages
  remaining,      \* fetch_sitemap: child sitemaps still to process
  visited,        \* discover_pages_via_crawling: visited
  to_visit,       \* discover_pages_via_crawling: to_visit
  page_count,     \* discover_pages_via_crawling: page_count
  reports,        \* the values passed to report_progress, in order
  sem,            \* the semaphore's counter
  tasks,          \* bounded_scrape tasks: "waiting", "running", "done", "raised"
  results,        \* what each task returned
  master,         \* <<master_json>> once scrape_all_pages has returned it
  sitemap_kind,   \* history: what /sitemap.xml answered
  offered,        \* history: locations listed by the sitemap documents read
  crawled,        \* history: discover_pages_via_crawling was called
  visit_failed,   \* history: a visit of the crawl raised
  visit_order,    \* history: the URLs the crawl visited, in order
  discovered,     \* history: self.pages when fetch_sitemap returned
  data_pages,     \* load_from_dict: data['pages']
  ipc,            \* load_from_dict: where the call is
  documents,      \* load_from_dict: documents
  metadatas,      \* load_from_dict: metadatas
  ids,            \* load_from_dict: ids
  batch_i,        \* load_from_dict: i of the batch loop
  collection,     \* the entries of self.collection, in insertion order
  add_calls,      \* history: the collection.add calls made, with their outcome
  question,       \* app.py: question
  n_results,      \* app.py: n_results
  threshold,      \* app.py: threshold
  qpc,            \* where the handling of the search button is
  sources,        \* rag_query: sources
  response,       \* <<response>> once rag_query has returned it
  shown,          \* the sources displayed
  query_failed,   \* history: which call of rag_query raised
  store,          \* the persistent store: collection name -> its documents
  now,            \* the second the wall clock reads
  collection_name, \* st.session_state.collection_name of each session
  vector_store,   \* st.session_state.vector_store of each session
  runs,           \* history: the runs of scrape_and_load, in order
  last_delete     \* history: the last call of delete_collection

chunkVars == <<text, chunk_size, chunks, cpc>>

inputVars == <<max_pages, max_concurrent, hung>>

sitemapVars == <<sitemap_kind, offered, remaining>>

crawlVars == <<graph, visited, to_visit, page_count, crawled, visit_failed, visit_order>>

fetchVars == <<sem, tasks, results, master>>

scraperVars == <<inputVars, pc, pages, reports, discovered, sitemapVars, crawlVars,
                 fetchVars>>

ingestVars == <<data_pages, ipc, documents, metadatas, ids, batch_i, collection,
                add_calls>>

queryVars == <<question, n_results, threshold, qpc, sources, response, shown, query_failed>>

\* what the crawler and chunk_text never touch
sessionVars == <<store, now, collection_name, vector_store, runs, last_delete>>

restVars == <<ingestVars, queryVars, sessionVars>>

notIngestVars == <<chunkVars, scraperVars, queryVars, sessionVars>>

notQueryVars == <<chunkVars, scraperVars, ingestVars, sessionVars>>

notSessionVars == <<chunkVars, scraperVars, ingestVars, queryVars>>

vars == <<text, chunk_size, chunks, cpc, max_pages, max_concurrent, hung, graph, pc, pages,
          remaining, visited, to_visit, page_count, reports, sem, tasks, results,
          master, sitemap_kind, offered, crawled, visit_failed, visit_order, discovered,
          data_pages, ipc, documents, metadatas, ids, batch_i, collection, add_calls,
          question, n_results, threshold, qpc, sources, response, shown, query_failed,
          store, now, collection_name, vector_store, runs, last_delete>>

\* SiteContentScraper.__init__, and no call of scrape_all_pages yet
ScraperIdle ==
  /\ pc = "idle"
  /\ pages = <<>>
  /\ remaining = 0
  /\ visited = {}
  /\ to_visit = <<>>
  /\ page_count = 0
  /\ reports = <<>>
  /\ sem = 0
  /\ tasks = <<>>
  /\ results = <<>>
  /\ master = <<>>
  /\ sitemap_kind = "none"
  /\ graph = "unread"
  /\ offered = {}
  /\ crawled = FALSE
  /\ visit_failed = FALSE
  /\ visit_order = <<>>
  /\ discovered = <<>>

\* chunk_text not under study
ChunkIdle ==
  /\ text = <<>>
  /\ chunk_size = MaxChunkSize
  /\ chunks = <<>>
  /\ cpc = "unused"

\* no call of load_from_dict yet, on a collection just created
IngestIdle ==
  /\ data_pages = <<>>
  /\ ipc = "idle"
  /\ documents = <<>>
  /\ metadatas = <<>>
  /\ ids = <<>>
  /\ batch_i = 0
  /\ collection = <<>>
  /\ add_calls = <<>>

\* the search button not pressed yet
QueryIdle ==
  /\ question = <<>>
  /\ n_results = 1
  /\ threshold = 0
  /\ qpc = "idle"
  /\ sources = <<>>
  /\ response = <<>>
  /\ shown = <<>>
  /\ query_failed = "none"

Sessions == {"s1", "s2"}

None == <<>>

\* no session has done anything, the store is empty
SessionIdle ==
  /\ store = <<>>
  /\ now = 0
  /\ collection_name = [s \in Sessions |-> None]
  /\ vector_store = [s \in Sessions |-> None]
  /\ runs = <<>>
  /\ last_delete = None

RestIdle == IngestIdle /\ QueryIdle /\ SessionIdle

(***************************************************************************)
(* ChunkSpec: chunk_text applied to every text up to MaxTextLen.           *)
(***************************************************************************)
Texts == SeqsUpTo(Alphabet, MaxTextLen)

ChunkInit ==
  /\ text \in Texts
  /\ chunk_size \in 1..MaxChunkSize
  /\ chunks = <<>>
  /\ cpc = "call"
  /\ max_pages = MinPages
  /\ max_concurrent = 1
  /\ hung = 0
  /\ ScraperIdle
  /\ RestIdle

ChunkCall ==
  /\ cpc = "call"
  /\ chunks' = chunk_text(text, chunk_size)
  /\ cpc' = "returned"
  /\ UNCHANGED <<text, chunk_size, restVars, inputVars, pc, pages, reports, discovered,
                 sitemapVars, crawlVars, fetchVars>>

ChunkNext == ChunkCall

ChunkSpec == ChunkInit /\ [][ChunkNext]_vars

(***************************************************************************)
(* Spec: one run of scrape_all_pages(max_pages).                           *)
(***************************************************************************)
Init ==
  /\ text = <<>>
  /\ chunk_size = MaxChunkSize
  /\ chunks = <<>>
  /\ cpc = "unused"
  /\ max_pages \in MinPages..MaxPagesBound
  /\ max_concurrent \in 1..MaxConcurrentBound
  /\ hung = 0
  /\ ScraperIdle
  /\ RestIdle

\* A plausible slip: the same-site test is left out of the filter.
KeepLocAnySite(loc, pgs) == \A i \in 1..Len(pgs) : pgs[i] # loc

\* loc.startswith(self.base_url) and loc not in self.pages
KeepLoc(loc, pgs) ==
  /\ StartsWith(loc, BaseUrl)
  /\ \A i \in 1..Len(pgs) : pgs[i] # loc

\* for url in urls: ... of fetch_sitemap, on self.pages = pgs.  raised: a
\* url['loc'] raised, which ends the loop with what was appended before it.
RECURSIVE AddLocs(_, _, _)
AddLocs(pgs, locs, maxp) ==
  IF locs = <<>> THEN [pages |-> pgs, raised |-> FALSE]
  ELSE IF Head(locs) = NoLoc THEN [pages |-> pgs, raised |-> TRUE]
  ELSE IF KeepLoc(Head(locs), pgs)
       THEN IF Len(pgs) + 1 >= maxp
            THEN [pages |-> Append(pgs, Head(locs)), raised |-> FALSE]
            ELSE AddLocs(Append(pgs, Head(locs)), Tail(locs), maxp)
  ELSE AddLocs(pgs, Tail(locs), maxp)

\* the locations a sitemap document lists in well-formed <url> entries
RECURSIVE ListedLocs(_)
ListedLocs(locs) ==
  IF locs = <<>> \/ Head(locs) = NoLoc THEN {}
  ELSE {Head(locs)} \cup ListedLocs(Tail(locs))

\* scrape_all_pages once fetch_sitemap returned true: the cut to max_pages,
\* the semaphore and the tasks handed to asyncio.gather
StartFetch(pgs, rep) ==
  LET cut == IF Len(pgs) > max_pages THEN SubSeq(pgs, 1, max_pages) ELSE pgs
  IN /\ pc' = "fetching"
     /\ pages' = cut
     /\ discovered' = pgs
     /\ reports' = Append(rep, P(40))
     /\ sem' = max_concurrent
     /\ tasks' = [i \in 1..Len(cut) |-> "waiting"]
     /\ results' = [i \in 1..Len(cut) |-> NoResult]
     /\ master' = <<>>

\* scrape_all_pages once fetch_sitemap returned a falsy value: return None
GiveUp(pgs, rep) ==
  /\ pc' = "failed"
  /\ pages' = pgs
  /\ discovered' = pgs
  /\ reports' = Append(rep, P(0))
  /\ UNCHANGED fetchVars

\* return len(self.pages) > 0, and what scrape_all_pages does with it
ReturnFound(pgs, rep) ==
  IF Len(pgs) > 0 THEN StartFetch(pgs, rep) ELSE GiveUp(pgs, rep)

\* the while loop of discover_pages_via_crawling at its test: another turn,
\* or the end of the crawl, which reports 40 and returns len(self.pages) > 0
CrawlLoop(pgs, vis, queue, count, rep, failed) ==
  /\ visited' = vis
  /\ to_visit' = queue
  /\ page_count' = count
  /\ crawled' = TRUE
  /\ visit_failed' = failed
  /\ IF queue # <<>> /\ Cardinality(vis) < max_pages
     THEN /\ pc' = "crawl"
          /\ pages' = pgs
          /\ reports' = rep
          /\ UNCHANGED <<discovered, fetchVars>>
     ELSE ReturnFound(pgs, Append(rep, P(40)))

\* A plausible slip: the crawl keeps what the sitemap path had collected.
CrawlStartKeeps(collected) == collected \o <<BaseUrl>>

\* self.pages = [start_url], whatever self.pages held
CrawlStart(collected) == <<BaseUrl>>

\* discover_pages_via_crawling(self.base_url, max_pages) up to the loop, called
\* when self.pages = collected, once the browser is launched
CrawlLaunched(collected, rep) ==
  /\ graph' \in Graphs
  /\ visit_order' = <<>>
  /\ CrawlLoop(CrawlStart(collected), {BaseUrl}, <<BaseUrl>>, 0, rep, FALSE)

\* the browser launch raises, outside any try of discover_pages_via_crawling,
\* and no handler of fetch_sitemap is left to catch it: the exception leaves
\* fetch_sitemap and scrape_all_pages
CrawlRaises(collected, rep) ==
  /\ pc' = "raised"
  /\ pages' = CrawlStart(collected)
  /\ reports' = rep
  /\ crawled' = TRUE
  /\ UNCHANGED <<graph, visited, to_visit, page_count, visit_failed,
                 visit_order, discovered, fetchVars>>

\* return await self.discover_pages_via_crawling(self.base_url, max_pages) in
\* fetch_sitemap.  guarded: the call is made inside the try of fetch_sitemap
\* (the non-200 branch, the handler of the parsing try), so that a raising
\* browser launch is caught by the last handler, which reports 5 and calls
\* discover_pages_via_crawling once more; the call of the last handler itself
\* is not guarded.
EnterCrawl(collected, rep, guarded) ==
  \E launched \in BOOLEAN, relaunched \in BOOLEAN :
    LET first == Append(rep, P(10))
        again == first \o <<P(5), P(10)>>
    IN IF launched THEN CrawlLaunched(collected, first)
       ELSE IF ~guarded THEN CrawlRaises(collected, first)
       ELSE IF relaunched THEN CrawlLaunched(CrawlStart(collected), again)
       ELSE CrawlRaises(CrawlStart(collected), again)

\* scrape_all_pages reports 0, fetch_sitemap reports 5; the GET of
\* /sitemap.xml raises, answers another status than 200, or its body does
\* not decode or parse: report 5 and crawl.  The GET and the decoding are
\* under the last handler of fetch_sitemap; the status test and
\* xmltodict.parse are inside its try.
SitemapUnavailable ==
  /\ pc = "idle"
  /\ \E kind \in {"error", "non200", "parse_error"}, guarded \in BOOLEAN :
       /\ kind = "error" => ~guarded
       /\ kind = "non200" => guarded
       /\ sitemap_kind' = kind
       /\ EnterCrawl(pages, <<P(0), P(5), P(5)>>, guarded)
  /\ UNCHANGED <<chunkVars, restVars, inputVars, offered, remaining>>

\* a sitemap index whose 'sitemap' entry parsed to a list of n >= 2 children
SitemapIndex ==
  /\ pc = "idle"
  /\ \E n \in 2..MaxChildren : remaining' = n
  /\ sitemap_kind' = "index"
  /\ pc' = "children"
  /\ reports' = <<P(0), P(5), P(10)>>
  /\ UNCHANGED <<chunkVars, restVars, inputVars, pages, discovered, offered,
                 crawlVars, fetchVars>>

\* a sitemap index with one <sitemap> child: xmltodict gives a dict, the for
\* loop walks its keys and sitemap_entry['loc'] raises TypeError outside the
\* inner try.  The outer handler reports 5 and crawls.  child is what the
\* one child sitemap would have answered.
SitemapIndexOneChild ==
  /\ pc = "idle"
  /\ \E child \in ChildResponses : offered' = ListedLocs(child.locs)
  /\ sitemap_kind' = "index1"
  /\ EnterCrawl(pages, <<P(0), P(5), P(10), P(5)>>, TRUE)
  /\ UNCHANGED <<chunkVars, restVars, inputVars, remaining>>

\* a sitemap index without any <sitemap> child: sitemap['sitemapindex'] is
\* None or has no 'sitemap' key, the lookup raises, report 5 and crawl
SitemapIndexEmpty ==
  /\ pc = "idle"
  /\ sitemap_kind' = "index0"
  /\ EnterCrawl(pages, <<P(0), P(5), P(10), P(5)>>, TRUE)
  /\ UNCHANGED <<chunkVars, restVars, inputVars, offered, remaining>>

\* a urlset with <url> entries (one entry is wrapped into a list)
SitemapUrlset ==
  /\ pc = "idle"
  /\ sitemap_kind' = "urlset"
  /\ \E locs \in LocLists \ {<<>>} :
       LET r == AddLocs(pages, locs, max_pages)
       IN IF r.raised
          THEN /\ EnterCrawl(r.pages, <<P(0), P(5), P(10), P(5)>>, TRUE)
               /\ offered' = ListedLocs(locs)
          ELSE /\ ReturnFound(r.pages, <<P(0), P(5), P(10), P(15)>>)
               /\ offered' = ListedLocs(locs)
               /\ UNCHANGED crawlVars
  /\ UNCHANGED <<chunkVars, restVars, inputVars, remaining>>

\* <urlset/> without attributes: sitemap['urlset'] is None and
\* 'url' in None raises TypeError: report 5 and crawl
SitemapUrlsetNone ==
  /\ pc = "idle"
  /\ sitemap_kind' = "urlset_none"
  /\ EnterCrawl(pages, <<P(0), P(5), P(10), P(5)>>, TRUE)
  /\ UNCHANGED <<chunkVars, restVars, inputVars, offered, remaining>>

\* a urlset with attributes and no <url>, or a document that is neither a
\* sitemap index nor a urlset: fetch_sitemap falls off its end, returning None
SitemapNoUrl ==
  /\ pc = "idle"
  /\ \E kind \in {"urlset_empty", "other"} : sitemap_kind' = kind
  /\ GiveUp(pages, <<P(0), P(5), P(10)>>)
  /\ UNCHANGED <<chunkVars, restVars, inputVars, offered, remaining, crawlVars>>

\* one turn of the loop over the children of a sitemap index; after the last
\* child, report 15 and return len(self.pages) > 0
SitemapChild ==
  /\ pc = "children"
  /\ \E resp \in ChildResponses :
       LET r == AddLocs(pages, resp.locs, max_pages)
       IN /\ offered' = offered \cup ListedLocs(resp.locs)
          /\ remaining' = remaining - 1
          /\ IF remaining = 1
             THEN ReturnFound(r.pages, Append(reports, P(15)))
             ELSE /\ pages' = r.pages
                  /\ UNCHANGED <<pc, reports, discovered, fetchVars>>
  /\ UNCHANGED <<chunkVars, restVars, inputVars, sitemap_kind, crawlVars>>

\* link not in visited and link.startswith(self.base_url)
KeepLink(link, vis) == link \notin vis /\ StartsWith(link, BaseUrl)

\* for link in links: ... of discover_pages_via_crawling
RECURSIVE AddLinks(_, _, _)
AddLinks(st, links, maxp) ==
  IF links = <<>> THEN st
  ELSE IF KeepLink(Head(links), st.visited)
       THEN LET st2 == [visited |-> st.visited \cup {Head(links)},
                        to_visit |-> Append(st.to_visit, Head(links)),
                        pages |-> Append(st.pages, Head(links))]
            IN IF Len(st2.pages) >= maxp THEN st2 ELSE AddLinks(st2, Tail(links), maxp)
  ELSE AddLinks(st, Tail(links), maxp)

\* A plausible slip: to_visit.pop() takes the last element.
PopLast(queue) ==
  [current |-> queue[Len(queue)], rest |-> SubSeq(queue, 1, Len(queue) - 1)]

\* current_url = to_visit.pop(0)
PopFirst(queue) == [current |-> Head(queue), rest |-> Tail(queue)]

\* one turn of the while loop: pop the head of to_visit, report, visit it.
\* The visit either returns the page's links or raises (logged, no link).
CrawlVisit ==
  /\ pc = "crawl"
  /\ LET current == PopFirst(to_visit).current
         rest == PopFirst(to_visit).rest
         count == page_count + 1
         rep == Append(reports, CrawlProgress(count, max_pages))
     IN \E visit_ok \in BOOLEAN :
          IF visit_ok
          THEN LET r == AddLinks([visited |-> visited, to_visit |-> rest,
                                  pages |-> pages],
                                 Links(graph, current), max_pages)
               IN CrawlLoop(r.pages, r.visited, r.to_visit, count, rep, visit_failed)
          ELSE CrawlLoop(pages, visited, rest, count, rep, TRUE)
  /\ visit_order' = Append(visit_order, PopFirst(to_visit).current)
  /\ graph' = graph
  /\ UNCHANGED <<chunkVars, restVars, inputVars, sitemapVars>>

\* A plausible slip: the fetch is started without waiting for the semaphore.
SemaphoreIgnored == TRUE

\* async with semaphore: the task enters when the counter is positive
SemaphoreFree == sem > 0

\* bounded_scrape(url, i-1, total) enters the semaphore and scrape_page reports
\* its progress.  Tasks were created in page order and the semaphore wakes its
\* waiters first come first served, so the next task to enter is the first
\* one waiting.
TaskStart ==
  /\ pc = "fetching"
  /\ SemaphoreFree
  /\ \E i \in DOMAIN tasks :
       /\ tasks[i] = "waiting"
       /\ \A j \in 1..(i - 1) : tasks[j] # "waiting"
       /\ tasks' = [tasks EXCEPT ![i] = "running"]
       /\ reports' = Append(reports, PageProgress(i - 1, Len(pages)))
  /\ sem' = sem - 1
  /\ UNCHANGED <<chunkVars, restVars, inputVars, pc, pages, discovered, results, master,
                 sitemapVars, crawlVars>>

\* what scrape_page returns when the page loads: the record of the page
ScrapePage(url, content) ==
  [ok |-> TRUE, url |-> url, content |-> content,
   chunks |-> chunk_text(content, chunk_size),
   chunk_count |-> Len(chunk_text(content, chunk_size))]

\* A plausible slip: the slot of a finished fetch is not given back.
ReleaseNever(n) == n

\* leaving async with semaphore: semaphore.release()
Release(n) == n + 1

\* scrape_page of task i ends.  "ok": it returns the record of the page.
\* "fetch_error": navigation, rendering or extraction raised inside the try, it
\* returns None.  "launch_error": the browser launch before the try raised; the
\* exception passes through asyncio.gather and scrape_all_pages raises it.
\* Leaving async with releases the semaphore in every case.  The scrape_page
\* of the task hung never ends.
TaskFinishOf(i) ==
  /\ pc = "fetching"
  /\ i \in DOMAIN tasks
  /\ i # hung
  /\ tasks[i] = "running"
  /\ \E outcome \in FetchOutcomes, content \in PageTexts :
       /\ tasks' = [tasks EXCEPT ![i] = IF outcome = "launch_error" THEN "raised"
                                        ELSE "done"]
       /\ results' = [results EXCEPT
                        ![i] = IF outcome = "ok" THEN ScrapePage(pages[i], content)
                               ELSE NoResult]
       /\ pc' = IF outcome = "launch_error" THEN "raised" ELSE pc
  /\ sem' = Release(sem)
  /\ UNCHANGED <<chunkVars, restVars, inputVars, pages, discovered, reports, master,
                 sitemapVars, crawlVars>>

TaskFinish == \E i \in DOMAIN tasks : TaskFinishOf(i)

IsOk(r) == r.ok

\* A plausible slip: failed fetches are not filtered out.
AllResults(res) == res

\* [result for result in all_results if result]
SuccessfulResults(res) == SelectSeq(res, IsOk)

\* sum(page['chunk_count'] for page in successful_results)
RECURSIVE SumChunkCounts(_)
SumChunkCounts(recs) ==
  IF recs = <<>> THEN 0 ELSE Head(recs).chunk_count + SumChunkCounts(Tail(recs))

\* asyncio.gather returned: report 90, build master_json, report 100, return it
Assemble ==
  /\ pc = "fetching"
  /\ \A i \in DOMAIN tasks : tasks[i] = "done"
  /\ LET successful_results == SuccessfulResults(results)
     IN master' = <<[total_pages |-> Len(successful_results),
                     total_chunks |-> SumChunkCounts(successful_results),
                     pages |-> successful_results]>>
  /\ reports' = reports \o <<P(90), P(100)>>
  /\ pc' = "done"
  /\ UNCHANGED <<chunkVars, restVars, inputVars, pages, discovered, sem, tasks, results,
                 sitemapVars, crawlVars>>

Next ==
  \/ SitemapUnavailable
  \/ SitemapIndex
  \/ SitemapIndexOneChild
  \/ SitemapIndexEmpty
  \/ SitemapUrlset
  \/ SitemapUrlsetNone
  \/ SitemapNoUrl
  \/ SitemapChild
  \/ CrawlVisit
  \/ TaskStart
  \/ TaskFinish
  \/ Assemble

Spec == Init /\ [][Next]_vars

(***************************************************************************)
(* HangSpec: a run on a site that serves a urlset at /sitemap.xml, where   *)
(* the scrape_page of one task may never return.  The event loop runs      *)
(* every task that can enter the semaphore, and every other scrape_page    *)
(* ends (its navigation and rendering have timeouts).                      *)
(***************************************************************************)
HangInit ==
  /\ text = <<>>
  /\ chunk_size = MaxChunkSize
  /\ chunks = <<>>
  /\ cpc = "unused"
  /\ max_pages = MaxHangPages
  /\ max_concurrent \in 1..MaxConcurrentBound
  /\ hung \in 1..MaxHangPages
  /\ ScraperIdle
  /\ RestIdle

HangFairness ==
  /\ WF_vars(TaskStart)
  /\ \A i \in 1..MaxHangPages : WF_vars(TaskFinishOf(i))

HangNext ==
  \/ SitemapUrlset
  \/ CrawlVisit
  \/ TaskStart
  \/ TaskFinish
  \/ Assemble

HangSpec == HangInit /\ [][HangNext]_vars /\ HangFairness

(***************************************************************************)
(* CrawlSpec: fetch_sitemap(max_pages) on the sites whose sitemap leads to *)
(* crawl-based discovery (or is a urlset), for every max_pages from 0: the *)
(* method takes any integer, only the form of app.py starts at MinPages.   *)
(***************************************************************************)
CrawlInit ==
  /\ text = <<>>
  /\ chunk_size = MaxChunkSize
  /\ chunks = <<>>
  /\ cpc = "unused"
  /\ max_pages \in 0..MaxCrawlPages
  /\ max_concurrent = 1
  /\ hung = 0
  /\ ScraperIdle
  /\ RestIdle

CrawlNext ==
  \/ SitemapUnavailable
  \/ SitemapIndexOneChild
  \/ SitemapIndexEmpty
  \/ SitemapUrlset
  \/ SitemapUrlsetNone
  \/ CrawlVisit

CrawlSpec == CrawlInit /\ [][CrawlNext]_vars

(***************************************************************************)
(* IngestSpec: one call of VectorStore.load_from_dict(data) on a           *)
(* collection that was just created.  A text is known by where it comes    *)
(* from and by its length, the one thing load_from_dict reads of it.       *)
(***************************************************************************)
Min(a, b) == IF a < b THEN a ELSE b

Content(i, l) == [kind |-> "content", page |-> i, len |-> l]

Passage(i, j) == [kind |-> "passage", page |-> i, pos |-> j]

ContentLens == {200, ContentThreshold, ContentThreshold + 1}

ChunkCounts == {0, 12, batch_size + 1}

PageShapes == [len : ContentLens, n : ChunkCounts]

\* the i-th page of a crawl result
MakePage(i, shape) ==
  [url     |-> <<"site", i>>,
   title   |-> <<"title", i>>,
   content |-> Content(i, shape.len),
   chunks  |-> [j \in 1..shape.n |-> Passage(i, j - 1)]]

CrawlResults ==
  UNION {{[i \in 1..n |-> MakePage(i, shapes[i])] : shapes \in [1..n -> PageShapes]}
           : n \in 0..MaxIngestPages}

\* f"doc_{doc_id_counter}"
DocId(k) == <<"doc", k>>

\* A plausible slip: a content of exactly the threshold length is split too.
UsesChunksFromThreshold(page) == page.content.len >= ContentThreshold

\* if len(content) > 5000
UsesChunks(page) == page.content.len > ContentThreshold

ChunkMeta(page, j) ==
  [url |-> page.url, title |-> page.title, chunk_id |-> j, is_chunk |-> TRUE]

WholeMeta(page) ==
  [url |-> page.url, title |-> page.title, is_chunk |-> FALSE]

EmptyLists == [documents |-> <<>>, metadatas |-> <<>>, ids |-> <<>>, doc_id_counter |-> 0]

\* A plausible slip: the counter is not advanced.
AppendDocSameId(st, doc, meta) ==
  [documents      |-> Append(st.documents, doc),
   metadatas      |-> Append(st.metadatas, meta),
   ids            |-> Append(st.ids, DocId(st.doc_id_counter)),
   doc_id_counter |-> st.doc_id_counter]

\* doc_id = f"doc_{doc_id_counter}"; doc_id_counter += 1; the three appends
AppendDoc(st, doc, meta) ==
  [documents      |-> Append(st.documents, doc),
   metadatas      |-> Append(st.metadatas, meta),
   ids            |-> Append(st.ids, DocId(st.doc_id_counter)),
   doc_id_counter |-> st.doc_id_counter + 1]

\* for j, chunk in enumerate(chunks): one document, metadata and identifier
\* per chunk, the counter advanced by one each time
AddChunkDocs(st, page) ==
  LET n == Len(page.chunks)
  IN [documents      |-> st.documents \o [j \in 1..n |-> page.chunks[j]],
      metadatas      |-> st.metadatas \o [j \in 1..n |-> ChunkMeta(page, j - 1)],
      ids            |-> st.ids \o [j \in 1..n |-> DocId(st.doc_id_counter + j - 1)],
      doc_id_counter |-> st.doc_id_counter + n]

AddPageDocs(st, page) ==
  IF UsesChunks(page)
    THEN AddChunkDocs(st, page)
    ELSE AppendDoc(st, page.content, WholeMeta(page))

\* for i, page in enumerate(data.get('pages', [])), over the first n pages
RECURSIVE BuildLists(_, _)
BuildLists(pgs, n) ==
  IF n = 0 THEN EmptyLists ELSE AddPageDocs(BuildLists(pgs, n - 1), pgs[n])

\* A plausible slip: the slice runs one element into the next batch.
SliceOverlapping(s, i, n) == SubSeq(s, i + 1, Min(i + n + 1, Len(s)))

\* s[i:i+n]
Slice(s, i, n) == SubSeq(s, i + 1, Min(i + n, Len(s)))

\* what collection.add(documents, metadatas, ids) stores
Entries(docs, metas, idents) ==
  [k \in 1..Len(docs) |-> [id |-> idents[k], document |-> docs[k], metadata |-> metas[k]]]

AddCall(i, ok) ==
  [documents |-> Slice(documents, i, batch_size),
   metadatas |-> Slice(metadatas, i, batch_size),
   ids       |-> Slice(ids, i, batch_size),
   ok        |-> ok]

\* the batch loop after a successful add: next i of range(0, len(documents), batch_size)
AfterAdd(i, total) ==
  IF i + batch_size < total
    THEN [ipc |-> "adding", i |-> i + batch_size]
    ELSE [ipc |-> "returned", i |-> i]

\* A plausible slip: the error of a batch is swallowed and the loop goes on.
AfterErrorContinue(i, total) == AfterAdd(i, total)

\* except Exception as e: ... raise Exception(error_msg) from e
AfterError(i, total) == [ipc |-> "raised", i |-> i]

IngestInit ==
  /\ data_pages \in CrawlResults
  /\ ipc = "call"
  /\ documents = <<>>
  /\ metadatas = <<>>
  /\ ids = <<>>
  /\ batch_i = 0
  /\ collection = <<>>
  /\ add_calls = <<>>
  /\ max_pages = MinPages
  /\ max_concurrent = 1
  /\ hung = 0
  /\ ChunkIdle
  /\ ScraperIdle
  /\ QueryIdle
  /\ SessionIdle

\* lines 97-129: the three lists are built, then the batch loop is entered
BuildDocuments ==
  /\ ipc = "call"
  /\ LET st == BuildLists(data_pages, Len(data_pages))
     IN /\ documents' = st.documents
        /\ metadatas' = st.metadatas
        /\ ids' = st.ids
        /\ ipc' = IF Len(st.documents) = 0 THEN "returned" ELSE "adding"
  /\ UNCHANGED <<data_pages, batch_i, collection, add_calls, notIngestVars>>

\* lines 134-144: one batch is added
AddBatchOk ==
  /\ ipc = "adding"
  /\ LET call == AddCall(batch_i, TRUE)
         nxt == AfterAdd(batch_i, Len(documents))
     IN /\ collection' = collection \o Entries(call.documents, call.metadatas, call.ids)
        /\ add_calls' = Append(add_calls, call)
        /\ ipc' = nxt.ipc
        /\ batch_i' = nxt.i
  /\ UNCHANGED <<data_pages, documents, metadatas, ids, notIngestVars>>

\* lines 139-143 and 148-151: collection.add raises, having stored none or
\* some of the batch
AddBatchFails ==
  /\ ipc = "adding"
  /\ LET call == AddCall(batch_i, FALSE)
         nxt == AfterError(batch_i, Len(documents))
     IN /\ \E kept \in 0..(Len(call.documents) - 1) :
             collection' = collection \o Entries(SubSeq(call.documents, 1, kept),
                                                 SubSeq(call.metadatas, 1, kept),
                                                 SubSeq(call.ids, 1, kept))
        /\ add_calls' = Append(add_calls, call)
        /\ ipc' = nxt.ipc
        /\ batch_i' = nxt.i
  /\ UNCHANGED <<data_pages, documents, metadatas, ids, notIngestVars>>

IngestNext ==
  \/ BuildDocuments
  \/ AddBatchOk
  \/ AddBatchFails

IngestSpec == IngestInit /\ [][IngestNext]_vars

(***************************************************************************)
(* QuerySpec: one press of the search button of app.py, and the call of    *)
(* VectorStore.rag_query it makes.  Scores are levels 0..MaxScore; the     *)
(* answer and the error message are texts.                                 *)
(***************************************************************************)
Scores == 0..MaxScore

Questions == {<<>>, <<" ">>, <<"q">>, <<" ", "q">>}

\* str(e) of the exception of a failing call
ErrorMessages == {<<>>, <<"e">>}

\* response.choices[0].message.content
GeneratedAnswers == {<<>>, <<"a">>}

\* "Désolé, une erreur s'est produite lors du traitement de votre requête: "
ErrorPrefix == <<"D", ":", " ">>

\* one entry of what collection.query returns
Hit(rank, score) ==
  [document |-> <<"passage", rank>>,
   metadata |-> [url |-> <<"site", rank>>, title |-> <<"title", rank>>],
   distance |-> score]

\* collection.query(query_texts, n_results): at most n hits, nearest first
HitLists(n) ==
  UNION {{[r \in 1..k |-> Hit(r, sc[r])] :
            sc \in {f \in [1..k -> Scores] : \A r \in 1..(k - 1) : f[r] <= f[r + 1]}}
           : k \in 0..n}

\* lines 165-172
SourceOf(hit) ==
  [content    |-> hit.document,
   url        |-> hit.metadata.url,
   title      |-> hit.metadata.title,
   similarity |-> hit.distance]

\* A plausible slip: the sources of the search are returned with the error.
ErrorResponseWithSources(msg, srcs) ==
  [answer |-> ErrorPrefix \o msg, sources |-> srcs]

\* lines 191-197
ErrorResponse(msg, srcs) ==
  [answer |-> ErrorPrefix \o msg, sources |-> <<>>]

\* response["sources"][:3]
FirstThree(srcs) == SubSeq(srcs, 1, Min(3, Len(srcs)))

QueryInit ==
  /\ question \in Questions
  /\ n_results \in 1..MaxResults
  /\ threshold \in Scores
  /\ qpc = "pressed"
  /\ sources = <<>>
  /\ response = <<>>
  /\ shown = <<>>
  /\ query_failed = "none"
  /\ max_pages = MinPages
  /\ max_concurrent = 1
  /\ hung = 0
  /\ ChunkIdle
  /\ ScraperIdle
  /\ IngestIdle
  /\ SessionIdle

\* app.py 242, 292-293: a blank question is not searched
WarnBlank ==
  /\ qpc = "pressed"
  /\ Strip(question) = <<>>
  /\ qpc' = "warned"
  /\ UNCHANGED <<question, n_results, threshold, sources, response, shown, query_failed,
                 notQueryVars>>

\* app.py 242-250: rag_query(question, n_results, threshold) is called
CallRagQuery ==
  /\ qpc = "pressed"
  /\ Strip(question) # <<>>
  /\ qpc' = "searching"
  /\ UNCHANGED <<question, n_results, threshold, sources, response, shown, query_failed,
                 notQueryVars>>

\* vector_store.py 159-172: the search answers and the sources are built
SearchOk ==
  /\ qpc = "searching"
  /\ \E hits \in HitLists(n_results) :
       sources' = [r \in 1..Len(hits) |-> SourceOf(hits[r])]
  /\ qpc' = "generating"
  /\ UNCHANGED <<question, n_results, threshold, response, shown, query_failed,
                 notQueryVars>>

\* vector_store.py 159-162, 191-197: the search raises
SearchFails ==
  /\ qpc = "searching"
  /\ \E msg \in ErrorMessages : response' = <<ErrorResponse(msg, sources)>>
  /\ query_failed' = "search"
  /\ qpc' = "returned"
  /\ UNCHANGED <<question, n_results, threshold, sources, shown, notQueryVars>>

\* vector_store.py 175-189: the language model answers
GenerateOk ==
  /\ qpc = "generating"
  /\ \E a \in GeneratedAnswers : response' = <<[answer |-> a, sources |-> sources]>>
  /\ qpc' = "returned"
  /\ UNCHANGED <<question, n_results, threshold, sources, shown, query_failed,
                 notQueryVars>>

\* vector_store.py 177-184, 191-197: the language-model call raises
GenerateFails ==
  /\ qpc = "generating"
  /\ \E msg \in ErrorMessages : response' = <<ErrorResponse(msg, sources)>>
  /\ query_failed' = "generation"
  /\ qpc' = "returned"
  /\ UNCHANGED <<question, n_results, threshold, sources, shown, notQueryVars>>

\* app.py 252-276: the answer and the sources are displayed
Display ==
  /\ qpc = "returned"
  /\ shown' = FirstThree(response[1].sources)
  /\ qpc' = "shown"
  /\ UNCHANGED <<question, n_results, threshold, sources, response, query_failed,
                 notQueryVars>>

QueryNext ==
  \/ WarnBlank
  \/ CallRagQuery
  \/ SearchOk
  \/ SearchFails
  \/ GenerateOk
  \/ GenerateFails
  \/ Display

QuerySpec == QueryInit /\ [][QueryNext]_vars

(***************************************************************************)
(* SessionSpec: the application sessions of app.py, each with its          *)
(* st.session_state, over the one persistent store at /app/chroma_db.      *)
(* The steps are whole runs of scrape_and_load and presses of the delete   *)
(* button.  A collection is known by the run that added each of its        *)
(* documents doc_0, doc_1, ...                                             *)
(***************************************************************************)
Urls ==
  { <<"h", ":", "/", "/", "a", ".", "b", "/", "p">>,
    <<"a", ".", "b">>,
    <<"h", ":", "/", "/", "c">> }

Some(x) == <<x>>

\* str.replace('.', '_')
ReplaceDots(s) == [k \in 1..Len(s) |-> IF s[k] = "." THEN "_" ELSE s[k]]

\* url.split('//')[-1].split('/')[0].replace('.', '_')
Domain(url) ==
  ReplaceDots(SplitAt(Last(SplitAt(url, <<"/", "/">>, <<>>)), <<"/">>, <<>>)[1])

\* datetime.now().strftime('%Y%m%d%H%M%S'): one text per second
Stamp(t) == <<<<"0", "1", "2", "3", "4", "5", "6", "7", "8", "9">>[t + 1]>>

\* f"{domain}_{stamp}"
CollectionName(url, t) == Domain(url) \o <<"_">> \o Stamp(t)

\* chroma_client.get_or_create_collection(name): an existing collection is kept
GetOrCreate(st, name) ==
  IF name \in DOMAIN st THEN st ELSE [x \in DOMAIN st \cup {name} |->
                                        IF x = name THEN <<>> ELSE st[x]]

\* collection.add of the documents doc_0 .. doc_(n-1) of a run: an identifier
\* already in the collection is left as it is
AddDocs(content, run, n) ==
  [k \in 1..(IF n > Len(content) THEN n ELSE Len(content)) |->
     IF k <= Len(content) THEN content[k] ELSE run]

\* load_from_dict on the collection of that name, the first n documents stored
Load(st, name, run, n) ==
  [x \in DOMAIN st |-> IF x = name THEN AddDocs(st[x], run, n) ELSE st[x]]

\* chroma_client.delete_collection(name) on an existing collection
Remove(st, name) == [x \in DOMAIN st \ {name} |-> st[x]]

\* A plausible slip: the error of the store is swallowed.
DeleteResultSwallowed(exists) == [raised |-> FALSE, success_reported |-> TRUE]

\* VectorStore.delete_collection: the store raises for a missing collection,
\* the except branch re-raises, the success line is not reached
DeleteResult(exists) == [raised |-> ~exists, success_reported |-> exists]

\* init_session_state in every session, an empty store
SessionInit ==
  /\ SessionIdle
  /\ max_pages = MinPages
  /\ max_concurrent = 1
  /\ hung = 0
  /\ ChunkIdle
  /\ ScraperIdle
  /\ IngestIdle
  /\ QueryIdle

RunRecord(name, outcome) == [name |-> name, outcome |-> outcome]

\* the wall clock passes to the next second
Tick ==
  /\ now < MaxTime
  /\ now' = now + 1
  /\ UNCHANGED <<store, collection_name, vector_store, runs, last_delete, notSessionVars>>

\* app.py 95-102, 126-133: scrape_website raises or finds no page
RunNoIndex ==
  /\ Len(runs) < MaxRuns
  /\ \E s \in Sessions, url \in Urls, outcome \in {"scrape_raised", "no_pages"} :
       runs' = Append(runs, RunRecord(None, outcome))
  /\ UNCHANGED <<store, now, collection_name, vector_store, last_delete, notSessionVars>>

\* app.py 109-116, 126-133: VectorStore(...) raises, before or after it has
\* created the collection
RunInitFails ==
  /\ Len(runs) < MaxRuns
  /\ \E s \in Sessions, url \in Urls, created \in BOOLEAN :
       LET name == CollectionName(url, now)
       IN /\ collection_name' = [collection_name EXCEPT ![s] = Some(name)]
          /\ store' = IF created THEN GetOrCreate(store, name) ELSE store
          /\ runs' = Append(runs, RunRecord(Some(name), "init_failed"))
  /\ UNCHANGED <<now, vector_store, last_delete, notSessionVars>>

\* app.py 109-119, 126-133: load_from_dict raises, fewer than all documents stored
RunLoadFails ==
  /\ Len(runs) < MaxRuns
  /\ \E s \in Sessions, url \in Urls, n \in 1..MaxDocs, kept \in 0..(MaxDocs - 1) :
       LET name == CollectionName(url, now)
       IN /\ kept < n
          /\ collection_name' = [collection_name EXCEPT ![s] = Some(name)]
          /\ store' = Load(GetOrCreate(store, name), name, Len(runs) + 1, kept)
          /\ runs' = Append(runs, RunRecord(Some(name), "load_failed"))
  /\ UNCHANGED <<now, vector_store, last_delete, notSessionVars>>

\* app.py 109-125: the crawl result is indexed
RunOk ==
  /\ Len(runs) < MaxRuns
  /\ \E s \in Sessions, url \in Urls, n \in 1..MaxDocs :
       LET name == CollectionName(url, now)
       IN /\ collection_name' = [collection_name EXCEPT ![s] = Some(name)]
          /\ store' = Load(GetOrCreate(store, name), name, Len(runs) + 1, n)
          /\ vector_store' = [vector_store EXCEPT ![s] = Some(name)]
          /\ runs' = Append(runs, RunRecord(Some(name), "ok"))
  /\ UNCHANGED <<now, last_delete, notSessionVars>>

DeleteRecord(exists, res, st) ==
  [existed |-> exists, raised |-> res.raised,
   success_reported |-> res.success_reported, store_changed |-> st # store]

\* app.py 198-204 and vector_store.py 210-214: the collection is deleted
DeleteExisting ==
  /\ \E s \in Sessions :
       /\ vector_store[s] # None
       /\ LET name == vector_store[s][1]
              res == DeleteResult(TRUE)
          IN /\ name \in DOMAIN store
             /\ store' = Remove(store, name)
             /\ vector_store' = [vector_store EXCEPT ![s] = None]
             /\ collection_name' = [collection_name EXCEPT ![s] = None]
             /\ last_delete' = Some(DeleteRecord(TRUE, res, store'))
  /\ UNCHANGED <<now, runs, notSessionVars>>

\* app.py 198-201 and vector_store.py 210-217: the collection is not in the
\* store any more
DeleteMissing ==
  /\ \E s \in Sessions :
       /\ vector_store[s] # None
       /\ LET name == vector_store[s][1]
              res == DeleteResult(FALSE)
          IN /\ name \notin DOMAIN store
             /\ store' = store
             /\ last_delete' = Some(DeleteRecord(FALSE, res, store'))
             /\ IF res.raised
                  THEN UNCHANGED <<vector_store, collection_name>>
                  ELSE /\ vector_store' = [vector_store EXCEPT ![s] = None]
                       /\ collection_name' = [collection_name EXCEPT ![s] = None]
  /\ UNCHANGED <<now, runs, notSessionVars>>

SessionNext ==
  \/ Tick
  \/ RunNoIndex
  \/ RunInitFails
  \/ RunLoadFails
  \/ RunOk
  \/ DeleteExisting
  \/ DeleteMissing

SessionSpec == SessionInit /\ [][SessionNext]_vars

(***************************************************************************)
(* Vocabulary of the properties.                                           *)
(***************************************************************************)
\* fetch_sitemap has returned
DiscoveryReturned == pc \in {"fetching", "done", "failed"}

Range(seq) == {seq[i] : i \in DOMAIN seq}

SameSiteDistinct(pgs) ==
  /\ \A i \in DOMAIN pgs : StartsWith(pgs[i], BaseUrl)
  /\ \A i, j \in DOMAIN pgs : i # j => pgs[i] # pgs[j]

\* the same-site URLs that following links from the root reaches
RECURSIVE ReachableFrom(_, _)
ReachableFrom(g, S) ==
  LET more == {l \in UNION {Range(Links(g, u)) : u \in S} : StartsWith(l, BaseUrl)}
  IN IF more \subseteq S THEN S ELSE ReachableFrom(g, S \cup more)

\* the same-site URLs the site exposes: those its sitemap documents list
\* when it serves a sitemap index or a urlset, those reachable by links
\* otherwise
SitemapServed ==
  \/ sitemap_kind \in {"index", "index1"}
  \/ sitemap_kind = "urlset" /\ ~crawled

Discoverable ==
  IF SitemapServed THEN {u \in offered : StartsWith(u, BaseUrl)}
  ELSE ReachableFrom(graph, {BaseUrl})

NoFetchFailed == ~visit_failed /\ \A i \in DOMAIN results : results[i].ok

OkIndexes == {i \in DOMAIN results : results[i].ok}

RECURSIVE SumOver(_, _)
SumOver(S, f) ==
  IF S = {} THEN 0
  ELSE LET x == CHOOSE y \in S : TRUE IN f[x] + SumOver(S \ {x}, f)

Running == {i \in DOMAIN tasks : tasks[i] = "running"}

(***************************************************************************)
(* C1: when fetch_sitemap returns, self.pages has at most max_pages        *)
(* elements.  (Stated as claimed; the code breaks only out of the loop     *)
(* over one child sitemap, so every further child adds a page.)            *)
(***************************************************************************)
C1_DiscoveryWithinCap ==
  DiscoveryReturned => Len(discovered) <= max_pages

(***************************************************************************)
(* C2: fetch_sitemap returns a falsy value only after crawl-based          *)
(* discovery was attempted and found no page.  (Stated as claimed; the     *)
(* code returns from the sitemap path without crawling.)                   *)
(***************************************************************************)
C2_FalsyOnlyAfterCrawl ==
  pc = "failed" => (crawled /\ pages = <<>>)

(***************************************************************************)
(* C3: a sitemap index with one child sitemap is processed by the sitemap  *)
(* path and yields what that child contributes inside a longer index; it   *)
(* does not fall through to crawling.  (Stated as claimed; the code raises *)
(* on the one-child form and crawls.)                                      *)
(***************************************************************************)
C3_OneChildIndexLikeList ==
  (sitemap_kind = "index1" /\ DiscoveryReturned) =>
    LET listed == {u \in offered : StartsWith(u, BaseUrl)}
    IN /\ ~crawled
       /\ Range(discovered) \subseteq listed
       /\ Len(discovered) = IF Cardinality(listed) < max_pages
                            THEN Cardinality(listed) ELSE max_pages

(***************************************************************************)
(* C4: in every state, every element of self.pages starts with base_url    *)
(* and no URL appears twice in self.pages.                                 *)
(***************************************************************************)
C4_PagesSameSiteDistinct ==
  SameSiteDistinct(pages) /\ SameSiteDistinct(discovered)

\* a sitemap that lists a foreign URL among several same-site ones
C4_Witness ==
  /\ DiscoveryReturned
  /\ ~crawled
  /\ ForeignUrl \in offered
  /\ Len(discovered) >= 2

(***************************************************************************)
(* C5: when the site exposes more than max_pages same-site URLs and no     *)
(* fetch fails, scrape_all_pages returns exactly max_pages page records    *)
(* and total_pages = max_pages.  (Stated as claimed; it fails on a         *)
(* one-child sitemap index, where the code crawls instead.)                *)
(***************************************************************************)
C5_CapMetExactly ==
  (pc = "done" /\ NoFetchFailed /\ Cardinality(Discoverable) > max_pages) =>
    /\ Len(master[1].pages) = max_pages
    /\ master[1].total_pages = max_pages

C7_InFlightBounded == Cardinality(Running) <= max_concurrent

\* every slot taken while another task waits
C7_Witness ==
  /\ Cardinality(Running) = max_concurrent
  /\ \E i \in DOMAIN tasks : tasks[i] = "waiting"

(***************************************************************************)
(* C8: each value passed to report_progress is greater than or equal to    *)
(* the value passed before it.  (Stated as claimed; the code reports 0     *)
(* when discovery fails and 5 again when it falls back to crawling.)       *)
(***************************************************************************)
C8_ProgressMonotone ==
  \A i \in 1..(Len(reports) - 1) : FracLeq(reports[i], reports[i + 1])

(***************************************************************************)
(* C9: chunk_text returns an empty sequence for the empty string and for   *)
(* every whitespace-only string.  (Stated as claimed; the code returns a   *)
(* sequence holding one empty passage for a whitespace-only string.)       *)
(***************************************************************************)
WhitespaceOnly(s) == \A i \in 1..Len(s) : s[i] \in Whitespace

C9_EmptyForBlank ==
  (cpc = "returned" /\ WhitespaceOnly(text)) => chunks = <<>>

(***************************************************************************)
(* C10: joining the returned passages with single spaces gives back the    *)
(* whitespace-normalized input, and a paragraph longer than 2 x chunk_size *)
(* without sentence-ending punctuation comes back as one passage.          *)
(***************************************************************************)
HasPunct(s) == \E i \in 1..Len(s) : s[i] \in EndPunct

C10_JoinIsNormalized ==
  cpc = "returned" =>
    /\ JoinSpaces(chunks) = Normalize(text)
    /\ (Len(Normalize(text)) > 2 * chunk_size /\ ~HasPunct(text))
         => chunks = <<Normalize(text)>>

\* a text with whitespace to collapse that is cut into several passages
C10_Witness ==
  /\ cpc = "returned"
  /\ Len(chunks) >= 2
  /\ Normalize(text) # text
  /\ Len(Normalize(text)) > 2 * chunk_size

(***************************************************************************)
(* C19: for a text longer than 2 x chunk_size, every returned passage made *)
(* of two or more sentences has length at most chunk_size, separating      *)
(* spaces included.  (Stated as claimed; the code's test leaves out the    *)
(* space it adds, so such a passage can be chunk_size + 1 long.)           *)
(***************************************************************************)
C19_SentenceBufferBounded ==
  (cpc = "returned" /\ Len(Normalize(text)) > 2 * chunk_size) =>
    \A k \in DOMAIN chunks :
      Len(SplitSentences(chunks[k])) >= 2 => Len(chunks[k]) <= chunk_size

(***************************************************************************)
(* C20: for an input made of paragraphs separated by blank lines, each at  *)
(* most 2 x chunk_size long, two consecutive paragraphs whose combined     *)
(* length exceeds chunk_size never end up in the same passage.  (Stated as *)
(* claimed; the code collapses the blank lines before it splits on them.)  *)
(* The paragraphs are taken without inner whitespace, so that the i-th     *)
(* word of the passages is the i-th paragraph.                             *)
(***************************************************************************)
InputParagraphs == SplitAt(text, ParagraphSep, <<>>)

IsWord(s) == s # <<>> /\ \A i \in 1..Len(s) : s[i] \notin Whitespace

WordCount(passage) == Len(SplitAt(passage, <<" ">>, <<>>))

RECURSIVE WordsUpTo(_, _)
WordsUpTo(passages, k) ==
  IF k = 0 THEN 0 ELSE WordCount(passages[k]) + WordsUpTo(passages, k - 1)

\* i is in PassageEnds when a passage ends with the i-th word
PassageEnds == {WordsUpTo(chunks, k) : k \in DOMAIN chunks}

C20_ParagraphsKeptApart ==
  (/\ cpc = "returned"
   /\ Len(InputParagraphs) >= 2
   /\ \A i \in DOMAIN InputParagraphs :
        IsWord(InputParagraphs[i]) /\ Len(InputParagraphs[i]) <= 2 * chunk_size)
  => \A i \in 1..(Len(InputParagraphs) - 1) :
       Len(InputParagraphs[i]) + Len(InputParagraphs[i + 1]) > chunk_size
         => i \in PassageEnds

(***************************************************************************)
(* Vocabulary of the ingest properties.                                    *)
(***************************************************************************)
\* load_from_dict has built its three lists
ListsBuilt == ipc \in {"adding", "returned", "raised"}

\* the documents a page is to give
DocCount(page) ==
  IF page.content.len > ContentThreshold THEN Len(page.chunks) ELSE 1

\* the documents the pages before the i-th are to give
RECURSIVE Offset(_)
Offset(i) == IF i <= 1 THEN 0 ELSE Offset(i - 1) + DocCount(data_pages[i - 1])

\* the documents carried by the add calls before the n-th
RECURSIVE CallsBefore(_)
CallsBefore(n) ==
  IF n <= 1 THEN 0 ELSE CallsBefore(n - 1) + Len(add_calls[n - 1].documents)

(***************************************************************************)
(* C11: load_from_dict chooses the shape of a page's documents by the      *)
(* length of its content: a page whose content is longer than 5000         *)
(* characters gives one document per precomputed passage, in order, each   *)
(* tagged is_chunk = TRUE with chunk_id its position 0..n-1 in the page;   *)
(* every other page gives exactly one document, its whole content, tagged  *)
(* is_chunk = FALSE and with no chunk_id.  When the call has returned,     *)
(* these documents and tags are what the collection holds.                 *)
(***************************************************************************)
C11_ShapeByContentLength ==
  ListsBuilt =>
    /\ Len(documents) = Offset(Len(data_pages) + 1)
    /\ Len(metadatas) = Len(documents)
    /\ \A i \in DOMAIN data_pages :
         LET page == data_pages[i]
             o == Offset(i)
         IN IF page.content.len > ContentThreshold
              THEN \A j \in 0..(Len(page.chunks) - 1) :
                     /\ documents[o + j + 1] = page.chunks[j + 1]
                     /\ metadatas[o + j + 1].is_chunk = TRUE
                     /\ metadatas[o + j + 1].chunk_id = j
              ELSE /\ documents[o + 1] = page.content
                   /\ metadatas[o + 1].is_chunk = FALSE
                   /\ "chunk_id" \notin DOMAIN metadatas[o + 1]
    /\ ipc = "returned" =>
         /\ Len(collection) = Len(documents)
         /\ \A k \in DOMAIN collection :
              /\ collection[k].document = documents[k]
              /\ collection[k].metadata = metadatas[k]

\* a long page of 12 passages and a short page have been ingested together
C11_Witness ==
  /\ ipc = "returned"
  /\ \E i, j \in DOMAIN data_pages :
       /\ data_pages[i].content.len > ContentThreshold
       /\ Len(data_pages[i].chunks) = 12
       /\ data_pages[j].content.len <= ContentThreshold
  /\ \E k \in DOMAIN collection : collection[k].metadata.is_chunk
  /\ \E k \in DOMAIN collection : ~collection[k].metadata.is_chunk

(***************************************************************************)
(* C12: within one load_from_dict call the identifiers are pairwise        *)
(* distinct and follow the page-then-chunk order: the k-th document        *)
(* (from 0) has the identifier doc_k, in the list, in the add call that    *)
(* carries it and in the collection.                                       *)
(***************************************************************************)
C12_IdsInIterationOrder ==
  ListsBuilt =>
    /\ Len(ids) = Offset(Len(data_pages) + 1)
    /\ \A k \in DOMAIN ids : ids[k] = DocId(k - 1)
    /\ \A k, l \in DOMAIN ids : k # l => ids[k] # ids[l]
    /\ \A n \in DOMAIN add_calls :
         \A m \in DOMAIN add_calls[n].ids :
           add_calls[n].ids[m] = DocId(CallsBefore(n) + m - 1)
    /\ \A k \in DOMAIN collection :
         /\ collection[k].id = DocId(k - 1)
         /\ collection[k].document = documents[k]

\* documents of two pages, more than one batch of them, have been added
C12_Witness ==
  /\ ipc = "returned"
  /\ Len(data_pages) >= 2
  /\ Len(add_calls) >= 2
  /\ Len(collection) = Len(ids)
  /\ Len(ids) > batch_size

(***************************************************************************)
(* C17: the add calls of load_from_dict partition the document list into   *)
(* consecutive batches: each call carries between 1 and 20 documents with  *)
(* the ids and metadatas of these documents, the calls follow the list     *)
(* order, and once the call has returned without a failing batch every     *)
(* document has been added exactly once.                                   *)
(***************************************************************************)
C17_BatchesPartitionList ==
  /\ \A n \in DOMAIN add_calls :
       LET call == add_calls[n]
           o == CallsBefore(n)
       IN /\ Len(call.documents) >= 1
          /\ Len(call.documents) <= batch_size
          /\ Len(call.ids) = Len(call.documents)
          /\ Len(call.metadatas) = Len(call.documents)
          /\ o + Len(call.documents) <= Len(documents)
          /\ \A m \in DOMAIN call.documents :
               /\ call.documents[m] = documents[o + m]
               /\ call.ids[m] = ids[o + m]
               /\ call.metadatas[m] = metadatas[o + m]
  /\ ipc = "returned" =>
       /\ \A n \in DOMAIN add_calls : add_calls[n].ok
       /\ CallsBefore(Len(add_calls) + 1) = Len(documents)
       /\ collection = Entries(documents, metadatas, ids)

\* several batches were added, the last one not full
C17_Witness ==
  /\ ipc = "returned"
  /\ Len(add_calls) >= 2
  /\ Len(add_calls[Len(add_calls)].documents) < batch_size
  /\ Len(add_calls[1].documents) = batch_size

(***************************************************************************)
(* C18: when the add of a batch fails, load_from_dict raises, that call    *)
(* is the last one it makes (no later batch, no retry), and what the       *)
(* earlier batches put in the collection is still there unchanged.         *)
(***************************************************************************)
C18_FailingBatchStops ==
  \A n \in DOMAIN add_calls :
    ~add_calls[n].ok =>
      LET o == CallsBefore(n)
      IN /\ ipc = "raised"
         /\ n = Len(add_calls)
         /\ \A m \in 1..(n - 1) : add_calls[m].ok
         /\ o <= Len(collection)
         /\ SubSeq(collection, 1, o) =
              Entries(SubSeq(documents, 1, o), SubSeq(metadatas, 1, o), SubSeq(ids, 1, o))

\* a batch failed after an earlier one was added
C18_Witness ==
  /\ ipc = "raised"
  /\ Len(add_calls) >= 2
  /\ ~add_calls[Len(add_calls)].ok
  /\ Len(collection) >= batch_size

(***************************************************************************)
(* C13: rag_query never raises.  When its similarity search or its         *)
(* language-model call has failed, the call returns a response whose       *)
(* answer is a non-empty error text and whose sources are empty, also      *)
(* when the search had already given sources.                              *)
(***************************************************************************)
C13_FailureGivesErrorAnswer ==
  query_failed # "none" =>
    /\ qpc \in {"returned", "shown"}
    /\ Len(response) = 1
    /\ response[1].answer # <<>>
    /\ response[1].sources = <<>>

\* the generation failed after a search that found sources
C13_Witness ==
  /\ query_failed = "generation"
  /\ sources # <<>>
  /\ qpc = "returned"
  /\ response[1].sources = <<>>

(***************************************************************************)
(* C14: after a search with threshold t, no source displayed to the user   *)
(* has a similarity score below t.                                         *)
(***************************************************************************)
C14_ShownNotBelowThreshold ==
  qpc = "shown" =>
    \A k \in DOMAIN shown : shown[k].similarity >= threshold

(***************************************************************************)
(* C15: delete_collection called for a collection that is not in the       *)
(* store raises an error to its caller, does not report success and        *)
(* leaves the store as it was.                                             *)
(***************************************************************************)
C15_DeleteMissingRaises ==
  (last_delete # None /\ ~last_delete[1].existed) =>
    /\ last_delete[1].raised
    /\ ~last_delete[1].success_reported
    /\ ~last_delete[1].store_changed

\* a session deletes a collection that another session has already deleted
C15_Witness ==
  /\ last_delete # None
  /\ ~last_delete[1].existed
  /\ last_delete[1].raised
  /\ \E s \in Sessions : vector_store[s] # None /\ vector_store[s][1] \notin DOMAIN store

(***************************************************************************)
(* C16: any two successful runs of scrape_and_load use different           *)
(* collection names, and no collection holds documents of two runs.        *)
(***************************************************************************)
C16_DisjointGenerations ==
  /\ \A i, j \in DOMAIN runs :
       (i # j /\ runs[i].outcome = "ok" /\ runs[j].outcome = "ok")
         => runs[i].name # runs[j].name
  /\ \A name \in DOMAIN store :
       \A k, l \in DOMAIN store[name] : store[name][k] = store[name][l]

(***************************************************************************)
(* Vocabulary of the hang property.                                        *)
(***************************************************************************)
\* the fetch phase was entered
FetchEntered == pc \in {"fetching", "done"} \/ (pc = "raised" /\ tasks # <<>>)

\* the fetch of task j has ended
Finished(j) == j \in DOMAIN tasks /\ tasks[j] \in {"done", "raised"}

\* every slot is either free or held by a scrape_page in flight
SlotsAccounted == FetchEntered => sem + Cardinality(Running) = max_concurrent

C22_NameAndStoreAgree ==
  \A s \in Sessions :
    /\ collection_name[s] = None <=> vector_store[s] = None
    /\ vector_store[s] # None => collection_name[s] = vector_store[s]

(***************************************************************************)
(* C23: Crawl-based discovery cannot report failure.  For any max_pages    *)
(* and any outcome of the page visits (every visit failing included),      *)
(* discover_pages_via_crawling replaces the page list with one that starts *)
(* with the start URL: the list holds the start URL and links read on the  *)
(* visited pages, nothing the sitemap path had collected stays in it       *)
(* unless the crawl found it too; and once it has returned, it has         *)
(* returned true (scrape_all_pages went on to the fetches).  A raising     *)
(* browser launch is not an outcome of a page visit: the call then does    *)
(* not return at all.                                                      *)
(***************************************************************************)
CrawlReturned == crawled /\ DiscoveryReturned

\* the links read on the pages the crawl visited
LinksRead == UNION {Range(Links(graph, visit_order[i])) : i \in DOMAIN visit_order}

StartsAtStartUrl(pgs) ==
  /\ pgs # <<>>
  /\ pgs[1] = BaseUrl
  /\ Range(pgs) \subseteq {BaseUrl} \cup LinksRead

C23_CrawlNeverFails ==
  /\ pc = "crawl" => StartsAtStartUrl(pages)
  /\ CrawlReturned => pc # "failed" /\ StartsAtStartUrl(discovered)

\* a urlset listed pages of the site before a malformed entry, every visit
\* of the crawl failed, and the discovery returned the start URL alone
C23_Witness ==
  /\ CrawlReturned
  /\ sitemap_kind = "urlset"
  /\ offered \cap SiteUrls # {}
  /\ visit_failed
  /\ page_count >= 1
  /\ discovered = <<BaseUrl>>

(***************************************************************************)
(* C24: Crawl-based discovery terminates.  For any finite site graph and   *)
(* any max_pages, every turn of the breadth-first loop is one page visit   *)
(* and the loop makes at most max(max_pages - 1, 0) of them; every URL is  *)
(* enqueued at most once; URLs are visited in the order they were          *)
(* enqueued; a failed visit only skips that URL (the queue is what was     *)
(* enqueued and not yet visited, whether visits failed or not).            *)
(***************************************************************************)
MaxVisits == IF max_pages - 1 > 0 THEN max_pages - 1 ELSE 0

NoDuplicates(seq) == \A i, j \in DOMAIN seq : seq[i] = seq[j] => i = j

\* During the crawl self.pages is the list of the URLs enqueued, in order.
Enqueued == pages

IsPrefix(a, b) == Len(a) <= Len(b) /\ SubSeq(b, 1, Len(a)) = a

CrawlRunning == crawled /\ pc = "crawl"

C24_CrawlTerminates ==
  /\ [](crawled /\ pc # "raised" => /\ page_count <= MaxVisits
                                    /\ Len(visit_order) = page_count)
  /\ [](CrawlRunning => /\ NoDuplicates(Enqueued)
                        /\ IsPrefix(visit_order, Enqueued)
                        /\ to_visit = SubSeq(Enqueued, page_count + 1, Len(Enqueued)))
  /\ [](CrawlReturned => /\ NoDuplicates(discovered)
                         /\ IsPrefix(visit_order, discovered))
  /\ [][CrawlRunning => page_count' = page_count + 1]_vars

\* a crawl that made max_pages - 1 = 3 visits, one of which failed, returned
C24_Witness ==
  /\ CrawlReturned
  /\ max_pages >= 4
  /\ page_count = max_pages - 1
  /\ visit_failed
  /\ Len(discovered) >= 3

====
